---- MODULE Spec2Model ----
(***************************************************************************)
(* State-machine model of the bblade battle simulation (src/src/main.ts,   *)
(* the power-up / chance-critical iteration): match lifecycle, per-frame   *)
(* evaluation, combat resolution, stat presets and the power-up cycle.     *)
(*                                                                         *)
(* Numbers.  The program computes in IEEE doubles; the model uses fixed    *)
(* point.  Spin values (currentRpm, maxRpm, atk, def) are counted in units *)
(* of 1/RpmUnit rpm, sta in units of 1/StaUnit rpm per second, crt and the *)
(* random draws in hundredths, frictionAir in thousandths, times in ms,    *)
(* positions in px, velocities and spd in tenths of a px per step, drift    *)
(* vectors in hundredths, angular velocities in 1/(100 * RpmUnit) rad/s,   *)
(* arena forces in units of FORCE_CONSTANT * body.mass / ARENA_RADIUS.     *)
(* A vector carries a flag nan: its components are NaN.                    *)
(* RpmUnit is chosen so that one frame of decay, sta * (subStepDelta/1000) *)
(* * SUBSTEPS, is a whole number of units.                                 *)
(***************************************************************************)
EXTENDS Integers, Sequences, FiniteSets, TLC

\* ------------------------------------------------------------------ bounds
MaxFrames == 2        \* animate() calls explored in one run
MaxPairs == 1         \* collision pairs reported during one frame
MaxTimers == 1        \* pending setTimeout(showPowerupCards) callbacks
MaxDrawKinds == 1     \* how many entries of POWERUP_TYPES the draws reach
MaxSelect == 1        \* how many of the shown cards the player's clicks reach
MaxOverlays == 1      \* winner overlays not yet dismissed
DecayFrames == 120    \* frames of the decay-law run (2.0 simulated seconds)
CombatFrames == 2     \* frames of the combat-law runs
ForceFrames == 4      \* frames of the arena-force runs
MaxTurns == 2         \* full turns the launch angle is followed out of range
PoolFrames == 4       \* frames of the power-up runs
MaxPending == 2       \* pending showPowerupCards callbacks in the power-up runs
MaxPoolKinds == 2     \* how many kinds of cards the draws of the power-up runs reach

\* ------------------------------------------------------------------- units
StaUnit == 20 * 20
RpmUnit == 60 * StaUnit
\* angles are kept in half degrees: sensitivity = 0.5 degrees per pixel
AngleUnit == 2

\* null object references, and the undefined value of a missing array element
Null == [null |-> TRUE]
Undefined == "undefined"
Max(a, b) == IF a >= b THEN a ELSE b
Min(a, b) == IF a <= b THEN a ELSE b

\* ------------------------------------------------------- program constants
ARENA_RADIUS == 300
BOWL_MAX_HEIGHT == 50
RING_OUT_RADIUS == 350
SUBSTEPS == 8
POWERUP_DURATION == 5000
REVEAL_DURATION == 2000
FRICTION_LOW == 20
FRICTION_HIGH == 100
DISH_LOW == 2
DISH_HIGH == 5
CURL_LOW == 1
CURL_HIGH == 50

Entity == {"player", "enemy"}
\* the entities array, in creation order
entities == <<"player", "enemy">>
Other(e) == IF e = "player" THEN "enemy" ELSE "player"
\* a Matter vector {x, y}; nan: the components are NaN
Vec(x, y) == [x |-> x, y |-> y, nan |-> FALSE]
NaNVec == [x |-> 0, y |-> 0, nan |-> TRUE]
\* the (x, z) of a THREE.Vector3 set from a Matter vector: Matter y is Three z
MeshAt(v) == [x |-> v.x, z |-> v.y, nan |-> v.nan]
Abs(n) == IF n < 0 THEN -n ELSE n
\* Math.sign
Sign(n) == IF n > 0 THEN 1 ELSE IF n < 0 THEN -1 ELSE 0
StartPos(e) == IF e = "player" THEN Vec(0, 100) ELSE Vec(0, -100)

StatKeys ==
    {"maxRpm", "atk", "def", "sta", "crt", "frictionAir", "dishForce", "curlForce", "spd"}

\* the combat and force fields of PLAYER_STATS / ENEMY_STATS as written in the source
DEFAULT_PLAYER_STATS ==
    [maxRpm |-> 1000 * RpmUnit, atk |-> 10 * RpmUnit, def |-> 5 * RpmUnit,
     sta |-> 1 * StaUnit, crt |-> 20, frictionAir |-> FRICTION_LOW,
     dishForce |-> DISH_LOW, curlForce |-> CURL_LOW, spd |-> 60]
DEFAULT_ENEMY_STATS ==
    [maxRpm |-> 1000 * RpmUnit, atk |-> 10 * RpmUnit, def |-> 5 * RpmUnit,
     sta |-> 1 * StaUnit, crt |-> 20, frictionAir |-> FRICTION_LOW,
     dishForce |-> DISH_LOW, curlForce |-> CURL_LOW, spd |-> 60]
DefaultStats(e) == IF e = "player" THEN DEFAULT_PLAYER_STATS ELSE DEFAULT_ENEMY_STATS

\* ------------------------------------------------- bounded input alphabets
\* a low-spin preset: 2 rpm, 1 rpm of net damage per plain hit, 1 rpm of decay per frame
LightStats ==
    [maxRpm |-> 2 * RpmUnit, atk |-> 2 * RpmUnit, def |-> 1 * RpmUnit,
     sta |-> 60 * StaUnit, crt |-> 20, frictionAir |-> FRICTION_HIGH,
     dishForce |-> DISH_HIGH, curlForce |-> CURL_LOW, spd |-> 60]
\* the presets of the damage, critical and decay examples
StrikerStats ==
    [maxRpm |-> 1000 * RpmUnit, atk |-> 90 * RpmUnit, def |-> 50 * RpmUnit,
     sta |-> 10 * StaUnit, crt |-> 20, frictionAir |-> FRICTION_LOW,
     dishForce |-> DISH_LOW, curlForce |-> CURL_LOW, spd |-> 60]
TankStats ==
    [maxRpm |-> 1000 * RpmUnit, atk |-> 90 * RpmUnit, def |-> 120 * RpmUnit,
     sta |-> 10 * StaUnit, crt |-> 20, frictionAir |-> FRICTION_LOW,
     dishForce |-> DISH_LOW, curlForce |-> CURL_LOW, spd |-> 60]

\* a preset whose spin runs out within two frames: 1 rpm, 0.75 rpm of decay per frame
SprinterStats ==
    [maxRpm |-> 1 * RpmUnit, atk |-> 10 * RpmUnit, def |-> 5 * RpmUnit,
     sta |-> 45 * StaUnit, crt |-> 20, frictionAir |-> FRICTION_LOW,
     dishForce |-> DISH_LOW, curlForce |-> CURL_LOW, spd |-> 60]

\* values found in localStorage at startup / typed into the stat editor
StoredPresets == {DEFAULT_PLAYER_STATS, LightStats}
CombatPresets == {StrikerStats, TankStats}
EditorPresets == {LightStats}
DecayPresets == {StrikerStats, SprinterStats}
ForcePresets == {DEFAULT_PLAYER_STATS, SprinterStats}

\* Math.random() results, in hundredths
Randoms == {0, 50}
\* performance.now() differences between two frames, in ms
DeltaTimes == {5000}
DecayDeltaTimes == {17, 33}
\* body positions the physics engine may report after a frame's substeps
Centre == Vec(0, 0)
Rim == Vec(180, 240)
Outside == Vec(360, 0)
\* what Engine.update can leave of a body after a frame's substeps: its position, its
\* velocity and the sign of its angular velocity
AtRest == [pos |-> Rim, vel |-> Vec(0, 0), spin |-> 1]
FlungOut == [pos |-> Outside, vel |-> Vec(60, 0), spin |-> -1]
AtCentre == [pos |-> Centre, vel |-> Vec(0, -60), spin |-> 1]
PhysStates == {AtRest, FlungOut}
ForcePhysStates == {AtRest, AtCentre}
\* currentLaunchAngle.value at the launch click, in degrees

\* ------------------------------------------------------------------- state
VARIABLES
    hasLaunched,      \* let hasLaunched
    gameOver,         \* let gameOver
    presets,          \* the PLAYER_STATS / ENEMY_STATS objects
    matchStart,       \* matchStartPlayerStats / matchStartEnemyStats (Null or an object)
    statsRef,         \* which object entity.stats points to: "global", "snap" or "own"
    ownStats,         \* a former snapshot object now referenced by entity.stats only
    currentRpm,       \* entity.currentRpm
    isDead,           \* entity.isDead
    meshPos,          \* entity.mesh.position (x, z) as last synced from the body
    bodyPos,          \* entity.body.position
    bodyVel,          \* entity.body.velocity
    angularVel,       \* entity.body.angularVelocity
    bodyForce,        \* entity.body.force
    bodyFrictionAir,  \* entity.body.frictionAir
    driftVelocity,    \* entity.driftVelocity (Null: undefined)
    driftRotation,    \* entity.driftRotation (Null: undefined)
    world,            \* number of times entity.body is listed in engine.world
    frameCounter,     \* let frameCounter
    powerUpState,     \* let powerUpState
    currentPowerups,  \* let currentPowerups (ids)
    pool,             \* powerUpPool.pool as a bag: id -> number of cards
    config,           \* powerUpPool.config: id -> number of cards of a fresh pool
    timers,           \* pending setTimeout(showPowerupCards, 500) callbacks
    currentLaunchAngle, \* currentLaunchAngle.value, in half degrees
    isAiming,         \* let isAiming
    previousAimX,     \* let previousAimX
    currentPatternIndex, \* let currentPatternIndex (boost variant, unnamed/part_001)
    winnerOverlays    \* texts of the .winner-overlay elements in the document

vars == <<hasLaunched, gameOver, presets, matchStart, statsRef, ownStats, currentRpm,
          isDead, meshPos, bodyPos, bodyVel, angularVel, bodyForce, bodyFrictionAir,
          driftVelocity, driftRotation, world, frameCounter, powerUpState,
          currentPowerups, pool, config, timers, currentLaunchAngle, isAiming,
          previousAimX, currentPatternIndex, winnerOverlays>>

\* POWERUP_TYPES ids in declaration order
POWERUP_IDS ==
    <<"atk_boost", "def_boost", "sta_drain", "crit_boost", "swap_drag", "swap_radial",
      "swap_tangent">>
PowerUpId == {POWERUP_IDS[i] : i \in 1..Len(POWERUP_IDS)}
DEFAULT_POOL_CONFIG ==
    [id \in PowerUpId |->
        CASE id \in {"atk_boost", "def_boost"} -> 3
          [] id \in {"sta_drain", "crit_boost"} -> 2
          [] OTHER -> 4]

IdlePowerUpState ==
    [isActive |-> FALSE, elapsedTime |-> 0, playerChoice |-> Null, enemyChoice |-> Null,
     isRevealing |-> FALSE, revealTime |-> 0]

\* entity.stats, dereferenced in a state record
StatsOf(S, e) ==
    CASE S.statsRef[e] = "global" -> S.presets[e]
      [] S.statsRef[e] = "snap" -> S.matchStart[e]
      [] OTHER -> S.ownStats[e]

\* the current state as a record, so that a handler's statements can be applied in order;
\* forceCalls counts the Body.applyForce calls of the handler that is running
Now ==
    [hasLaunched |-> hasLaunched, gameOver |-> gameOver, presets |-> presets,
     matchStart |-> matchStart, statsRef |-> statsRef, ownStats |-> ownStats,
     currentRpm |-> currentRpm, isDead |-> isDead, meshPos |-> meshPos,
     bodyPos |-> bodyPos, bodyVel |-> bodyVel, angularVel |-> angularVel,
     bodyForce |-> bodyForce, bodyFrictionAir |-> bodyFrictionAir,
     driftVelocity |-> driftVelocity, driftRotation |-> driftRotation,
     forceCalls |-> [e \in Entity |-> 0], world |-> world,
     frameCounter |-> frameCounter, powerUpState |-> powerUpState,
     currentPowerups |-> currentPowerups, pool |-> pool, config |-> config,
     timers |-> timers, currentLaunchAngle |-> currentLaunchAngle,
     isAiming |-> isAiming, previousAimX |-> previousAimX,
     currentPatternIndex |-> currentPatternIndex,
     winnerOverlays |-> winnerOverlays]

Becomes(S) ==
    /\ hasLaunched' = S.hasLaunched
    /\ gameOver' = S.gameOver
    /\ presets' = S.presets
    /\ matchStart' = S.matchStart
    /\ statsRef' = S.statsRef
    /\ ownStats' = S.ownStats
    /\ currentRpm' = S.currentRpm
    /\ isDead' = S.isDead
    /\ meshPos' = S.meshPos
    /\ bodyPos' = S.bodyPos
    /\ bodyVel' = S.bodyVel
    /\ angularVel' = S.angularVel
    /\ bodyForce' = S.bodyForce
    /\ driftVelocity' = S.driftVelocity
    /\ driftRotation' = S.driftRotation
    /\ bodyFrictionAir' = S.bodyFrictionAir
    /\ world' = S.world
    /\ frameCounter' = S.frameCounter
    /\ powerUpState' = S.powerUpState
    /\ currentPowerups' = S.currentPowerups
    /\ pool' = S.pool
    /\ config' = S.config
    /\ timers' = S.timers
    /\ currentLaunchAngle' = S.currentLaunchAngle
    /\ isAiming' = S.isAiming
    /\ previousAimX' = S.previousAimX
    /\ currentPatternIndex' = S.currentPatternIndex
    /\ winnerOverlays' = S.winnerOverlays

\* the state once the module has been evaluated: presets loaded from localStorage,
\* createBeyblade for both entities, first animate() frame done (mesh synced to body)
InitWith(stored) ==
    /\ hasLaunched = FALSE
    /\ gameOver = FALSE
    /\ presets \in [Entity -> stored]
    /\ matchStart = [e \in Entity |-> Null]
    /\ statsRef = [e \in Entity |-> "global"]
    /\ ownStats = [e \in Entity |-> Null]
    /\ currentRpm = [e \in Entity |-> 0]
    /\ isDead = [e \in Entity |-> FALSE]
    /\ meshPos = [e \in Entity |-> MeshAt(StartPos(e))]
    /\ bodyPos = [e \in Entity |-> StartPos(e)]
    /\ bodyVel = [e \in Entity |-> Vec(0, 0)]
    /\ angularVel = [e \in Entity |-> 0]
    /\ bodyForce = [e \in Entity |-> Vec(0, 0)]
    /\ driftVelocity = [e \in Entity |-> Null]
    /\ driftRotation = [e \in Entity |-> Null]
    /\ bodyFrictionAir = [e \in Entity |-> presets[e].frictionAir]
    /\ world = [e \in Entity |-> 1]
    /\ frameCounter = 1   \* module evaluation ends with the first animate() call
    /\ powerUpState = IdlePowerUpState
    /\ currentPowerups = <<>>
    /\ pool = DEFAULT_POOL_CONFIG
    /\ config = DEFAULT_POOL_CONFIG
    /\ timers = 0
    /\ currentLaunchAngle = 0
    /\ isAiming = FALSE
    /\ previousAimX = 0
    /\ currentPatternIndex = 0
    /\ winnerOverlays = <<>>

Init == InitWith(StoredPresets)

\* --------------------------------------------------------- physics library
\* Composite.add / Composite.remove on engine.world, per body
CompositeAdd(n) == n + 1
CompositeRemove(n) == IF n > 0 THEN n - 1 ELSE 0

\* resetEntityVisualsAndPhysics without entity.currentRpm = 0
resetEntityKeepsSpin(S, e, ref) ==
    LET stats == StatsOf([S EXCEPT !.statsRef[e] = ref], e)
    IN  [S EXCEPT !.bodyFrictionAir[e] = stats.frictionAir,
                  !.bodyPos[e] = StartPos(e),
                  !.bodyVel[e] = Vec(0, 0),
                  !.angularVel[e] = 0,
                  !.bodyForce[e] = Vec(0, 0),
                  !.meshPos[e] = MeshAt(StartPos(e)),
                  !.driftVelocity[e] = Null,
                  !.driftRotation[e] = Null,
                  !.statsRef[e] = ref,
                  !.ownStats[e] = IF ref = "own" THEN @ ELSE Null,
                  !.isDead[e] = FALSE]

\* resetEntityVisualsAndPhysics without Body.setVelocity(entity.body, { x: 0, y: 0 })
resetEntityKeepsVelocity(S, e, ref) ==
    LET stats == StatsOf([S EXCEPT !.statsRef[e] = ref], e)
    IN  [S EXCEPT !.bodyFrictionAir[e] = stats.frictionAir,
                  !.bodyPos[e] = StartPos(e),
                  !.angularVel[e] = 0,
                  !.bodyForce[e] = Vec(0, 0),
                  !.meshPos[e] = MeshAt(StartPos(e)),
                  !.driftVelocity[e] = Null,
                  !.driftRotation[e] = Null,
                  !.statsRef[e] = ref,
                  !.ownStats[e] = IF ref = "own" THEN @ ELSE Null,
                  !.isDead[e] = FALSE,
                  !.currentRpm[e] = 0]

\* ------------------------------------------------------------------ resets
\* resetEntityVisualsAndPhysics(entity, stats, startPos); ref names the object passed as stats
resetEntityVisualsAndPhysics(S, e, ref) ==
    LET stats == StatsOf([S EXCEPT !.statsRef[e] = ref], e)
    IN  [S EXCEPT !.bodyFrictionAir[e] = stats.frictionAir,
                  !.bodyPos[e] = StartPos(e),
                  !.bodyVel[e] = Vec(0, 0),
                  !.angularVel[e] = 0,
                  !.bodyForce[e] = Vec(0, 0),
                  !.meshPos[e] = MeshAt(StartPos(e)),
                  !.driftVelocity[e] = Null,
                  !.driftRotation[e] = Null,
                  !.statsRef[e] = ref,
                  !.ownStats[e] = IF ref = "own" THEN @ ELSE Null,
                  !.isDead[e] = FALSE,
                  !.currentRpm[e] = 0]

\* the bodies added to the world without being removed first
EnsureInWorldAddOnly(S) ==
    [S EXCEPT !.world = [e \in Entity |-> CompositeAdd(S.world[e])]]

\* Composite.remove(player.body); Composite.remove(enemy.body); Composite.add([both])
EnsureInWorld(S) ==
    [S EXCEPT !.world = [e \in Entity |-> CompositeAdd(CompositeRemove(S.world[e]))]]

\* stopPowerupTimer()
stopPowerupTimer(S) == [S EXCEPT !.powerUpState.isActive = FALSE]

\* Object.assign(PLAYER_STATS / ENEMY_STATS, src)
AssignPreset(S, e, src) == [S EXCEPT !.presets[e] = src]

\* resetMatch taking the discard branch whatever keepPowerups is
resetMatchDiscards(S, keepPowerups) ==
    LET S1 == [stopPowerupTimer(S) EXCEPT !.hasLaunched = FALSE, !.gameOver = FALSE,
                                          !.pool = S.config]
        S2 == IF S1.matchStart["player"] # Null /\ S1.matchStart["enemy"] # Null
              THEN LET A == AssignPreset(AssignPreset(S1, "player", S1.matchStart["player"]),
                                         "enemy", S1.matchStart["enemy"])
                   IN  resetEntityVisualsAndPhysics(
                           resetEntityVisualsAndPhysics(A, "player", "snap"),
                           "enemy", "snap")
              ELSE resetEntityVisualsAndPhysics(
                       resetEntityVisualsAndPhysics(S1, "player", "global"),
                       "enemy", "global")
    IN  EnsureInWorld(S2)

\* resetMatch(keepPowerups)
resetMatch(S, keepPowerups) ==
    LET S1 == [stopPowerupTimer(S) EXCEPT !.hasLaunched = FALSE, !.gameOver = FALSE,
                                          !.pool = S.config]
        S2 == IF keepPowerups
              THEN LET A == AssignPreset(AssignPreset(S1, "player", StatsOf(S1, "player")),
                                         "enemy", StatsOf(S1, "enemy"))
                   IN  resetEntityVisualsAndPhysics(
                           resetEntityVisualsAndPhysics(A, "player", "global"),
                           "enemy", "global")
              ELSE IF S1.matchStart["player"] # Null /\ S1.matchStart["enemy"] # Null
              THEN LET A == AssignPreset(AssignPreset(S1, "player", S1.matchStart["player"]),
                                         "enemy", S1.matchStart["enemy"])
                   IN  resetEntityVisualsAndPhysics(
                           resetEntityVisualsAndPhysics(A, "player", "snap"),
                           "enemy", "snap")
              ELSE resetEntityVisualsAndPhysics(
                       resetEntityVisualsAndPhysics(S1, "player", "global"),
                       "enemy", "global")
    IN  EnsureInWorld(S2)

\* -------------------------------------------------------------------- launch
\* the snapshot taken by reference (matchStart = entity.stats) instead of as a copy
SnapshotAliased(S, e) ==
    [S EXCEPT !.matchStart[e] = StatsOf(S, e), !.ownStats[e] = Null, !.statsRef[e] = "snap"]

\* JSON.parse(JSON.stringify(entity.stats)): a fresh object with the same field values;
\* the object entity.stats points to stays the entity's own
Snapshot(S, e) ==
    LET cur == StatsOf(S, e)
    IN  [S EXCEPT !.matchStart[e] = [k \in StatKeys |-> cur[k]],
                  !.ownStats[e] = IF S.statsRef[e] = "snap" THEN cur ELSE @,
                  !.statsRef[e] = IF S.statsRef[e] = "snap" THEN "own" ELSE @]

\* startPowerupTimer()
startPowerupTimer(S) == [S EXCEPT !.timers = @ + 1]

\* Math.cos / Math.sin of a whole number of quarter turns
Cos(deg) == CASE deg % 360 = 0 -> 1 [] deg % 360 = 180 -> -1 [] OTHER -> 0
Sin(deg) == CASE deg % 360 = 90 -> 1 [] deg % 360 = 270 -> -1 [] OTHER -> 0

\* the enemy's launch angle Math.random() * Math.PI * 2 for a draw r, in degrees
EnemyAngle(r) == (r * 360) \div 100

\* { x: Math.cos(angle) * spd * 0.1, y: Math.sin(angle) * spd * 0.1 }
LaunchVelocity(stats, deg) == Vec(Cos(deg) * stats.spd, Sin(deg) * stats.spd)

\* the launch handler without its "if (hasLaunched) return"
launchUnguarded(S, angle, r) ==
    LET S1 == [S EXCEPT !.hasLaunched = TRUE,
                        !.bodyVel =
                            [e \in Entity |->
                                LaunchVelocity(StatsOf(S, e),
                                               IF e = "player" THEN angle ELSE EnemyAngle(r))],
                        !.currentRpm = [e \in Entity |-> StatsOf(S, e).maxRpm],
                        !.angularVel = [e \in Entity |-> StatsOf(S, e).maxRpm]]
    IN  startPowerupTimer(Snapshot(Snapshot(S1, "player"), "enemy"))

\* launchBtn click handler, for the aimed angle and the draw of the enemy's angle
launch(S, angle, r) ==
    IF S.hasLaunched THEN S
    ELSE LET S1 == [S EXCEPT !.hasLaunched = TRUE,
                             !.bodyVel =
                                 [e \in Entity |->
                                     LaunchVelocity(StatsOf(S, e),
                                                    IF e = "player" THEN angle
                                                    ELSE EnemyAngle(r))],
                             !.currentRpm = [e \in Entity |-> StatsOf(S, e).maxRpm],
                             !.angularVel = [e \in Entity |-> StatsOf(S, e).maxRpm]]
         IN  startPowerupTimer(Snapshot(Snapshot(S1, "player"), "enemy"))

\* currentLaunchAngle.value in whole degrees
Degrees(a) == a \div AngleUnit

LaunchClick ==
    /\ hasLaunched \/ timers < MaxTimers
    /\ \E r \in Randoms : Becomes(launch(Now, Degrees(currentLaunchAngle), r))

\* ----------------------------------------------------------------- power-ups
\* write field k of the object entity.stats points to
SetStat(S, e, k, v) ==
    CASE S.statsRef[e] = "global" -> [S EXCEPT !.presets[e][k] = v]
      [] S.statsRef[e] = "snap" -> [S EXCEPT !.matchStart[e][k] = v]
      [] OTHER -> [S EXCEPT !.ownStats[e][k] = v]

\* POWERUP_TYPES[id].apply(entity)
apply(S, id, e) ==
    LET st == StatsOf(S, e)
    IN  CASE id = "atk_boost" -> SetStat(S, e, "atk", st.atk + 2 * RpmUnit)
          [] id = "def_boost" -> SetStat(S, e, "def", st.def + 2 * RpmUnit)
          [] id = "sta_drain" -> SetStat(S, e, "sta", (st.sta * 95) \div 100)
          [] id = "crit_boost" -> SetStat(S, e, "crt", st.crt + 5)
          [] id = "swap_drag" ->
                LET f == IF st.frictionAir # FRICTION_LOW THEN FRICTION_LOW ELSE FRICTION_HIGH
                IN  [SetStat(S, e, "frictionAir", f) EXCEPT !.bodyFrictionAir[e] = f]
          [] id = "swap_radial" ->
                SetStat(S, e, "dishForce",
                        IF st.dishForce # DISH_LOW THEN DISH_LOW ELSE DISH_HIGH)
          [] OTHER ->
                SetStat(S, e, "curlForce",
                        IF st.curlForce # CURL_LOW THEN CURL_LOW ELSE CURL_HIGH)

\* PowerUpPool.remove(powerup): the first card with that id, if any
remove(S, id) == IF S.pool[id] > 0 THEN [S EXCEPT !.pool[id] = @ - 1] ELSE S

\* the ids PowerUpPool.draw can return: any card still in the pool (the random index
\* is bounded to the first MaxDrawKinds kinds while one of them is left)
Drawable(S) ==
    LET left == {id \in PowerUpId : S.pool[id] > 0}
        near == {POWERUP_IDS[i] : i \in 1..MaxDrawKinds} \cap left
    IN  IF near # {} THEN near ELSE left

\* PowerUpPool.updateConfig(newConfig): this.config = { ...newConfig }; this.initialize()
updateConfig(S, newConfig) == [S EXCEPT !.config = newConfig, !.pool = newConfig]

\* showPowerupCards() with drawn = powerUpPool.draw(3)
showPowerupCards(S, drawn) ==
    IF ~S.hasLaunched \/ S.gameOver THEN S
    ELSE IF Len(drawn) = 0 THEN [S EXCEPT !.currentPowerups = drawn]
    ELSE [S EXCEPT !.currentPowerups = drawn,
                   !.powerUpState = [IdlePowerUpState EXCEPT !.isActive = TRUE]]

\* selectPowerup(currentPowerups[index], index)
selectPowerup(S, index) ==
    IF ~S.powerUpState.isActive \/ S.powerUpState.isRevealing
          \/ S.powerUpState.playerChoice # Null
    THEN S
    ELSE [S EXCEPT !.powerUpState.playerChoice =
                       [powerup |-> S.currentPowerups[index], index |-> index]]

\* a choice made with randomIdx = Math.floor(Math.random() * currentPowerups.length);
\* idx is randomIdx + 1, and with no card the chosen powerup is undefined
RandomChoice(S, idx) ==
    IF Len(S.currentPowerups) = 0 THEN [powerup |-> Undefined, index |-> 1]
    ELSE [powerup |-> S.currentPowerups[idx], index |-> idx]

\* resolveChoicesAndReveal()
resolveChoicesAndReveal(S, pIdx, eIdx) ==
    LET S1 == [S EXCEPT !.powerUpState.isRevealing = TRUE]
        S2 == IF S1.powerUpState.playerChoice = Null
              THEN [S1 EXCEPT !.powerUpState.playerChoice = RandomChoice(S1, pIdx)]
              ELSE S1
    IN  IF S2.powerUpState.enemyChoice = Null
        THEN [S2 EXCEPT !.powerUpState.enemyChoice = RandomChoice(S2, eIdx)]
        ELSE S2

\* finishPowerUpCycle() throws a TypeError when a chosen powerup is undefined
FinishThrows(S) ==
    \/ (S.powerUpState.playerChoice # Null /\ S.powerUpState.playerChoice.powerup = Undefined)
    \/ (S.powerUpState.enemyChoice # Null /\ S.powerUpState.enemyChoice.powerup = Undefined)

\* finishPowerUpCycle() without the powerUpPool.remove calls
finishPowerUpCycleKeepsCards(S) ==
    LET pc == S.powerUpState.playerChoice
        ec == S.powerUpState.enemyChoice
        S1 == [S EXCEPT !.powerUpState.isActive = FALSE, !.powerUpState.isRevealing = FALSE]
        S2 == IF pc # Null /\ pc.powerup # Undefined THEN apply(S1, pc.powerup, "player") ELSE S1
        S3 == IF ec # Null /\ ec.powerup # Undefined THEN apply(S2, ec.powerup, "enemy") ELSE S2
    IN  IF pc # Null /\ pc.powerup = Undefined THEN S1
        ELSE IF ec # Null /\ ec.powerup = Undefined THEN S2
        ELSE startPowerupTimer(S3)

\* finishPowerUpCycle(); on the TypeError the statements before it have taken effect
finishPowerUpCycle(S) ==
    LET pc == S.powerUpState.playerChoice
        ec == S.powerUpState.enemyChoice
        S1 == [S EXCEPT !.powerUpState.isActive = FALSE, !.powerUpState.isRevealing = FALSE]
        S2 == IF pc # Null /\ pc.powerup # Undefined
              THEN remove(apply(S1, pc.powerup, "player"), pc.powerup)
              ELSE S1
        S3 == IF ec # Null /\ ec.powerup # Undefined
              THEN LET A == apply(S2, ec.powerup, "enemy")
                   IN  IF pc = Null \/ pc.powerup # ec.powerup THEN remove(A, ec.powerup) ELSE A
              ELSE S2
    IN  IF pc # Null /\ pc.powerup = Undefined THEN S1
        ELSE IF ec # Null /\ ec.powerup = Undefined THEN S2
        ELSE startPowerupTimer(S3)

\* does updatePowerUpLogic(dt) end in the TypeError of finishPowerUpCycle?
UpdateThrows(S, dt) ==
    /\ S.powerUpState.isActive
    /\ S.powerUpState.isRevealing
    /\ S.powerUpState.revealTime + dt >= REVEAL_DURATION
    /\ FinishThrows(S)

\* updatePowerUpLogic(dt)
updatePowerUpLogic(S, dt, pIdx, eIdx) ==
    IF ~S.powerUpState.isActive THEN S
    ELSE IF ~S.powerUpState.isRevealing
    THEN LET S1 == [S EXCEPT !.powerUpState.elapsedTime = @ + dt]
         IN  IF S1.powerUpState.elapsedTime >= POWERUP_DURATION
             THEN resolveChoicesAndReveal(S1, pIdx, eIdx)
             ELSE S1
    ELSE LET S1 == [S EXCEPT !.powerUpState.revealTime = @ + dt]
         IN  IF S1.powerUpState.revealTime >= REVEAL_DURATION
             THEN finishPowerUpCycle(S1)
             ELSE S1

\* -------------------------------------------------------------------- combat
\* Math.random() < stats.crt
IsCrit(stats, r) == r < stats.crt

\* RawDamage ignoring the critical roll
RawDamageNoCrit(stats, crit) == stats.atk

\* rawDmg = crit ? atk * 2 : atk
RawDamage(stats, crit) == IF crit THEN stats.atk * 2 ELSE stats.atk

\* NetDamage without the Math.max(0, ...) clamp
NetDamageSigned(attacker, defender, crit) ==
    (IF crit THEN attacker.atk * 2 ELSE attacker.atk) - defender.def

\* dmg = Math.max(0, rawDmg - defender.def)
NetDamage(attacker, defender, crit) == Max(0, RawDamage(attacker, crit) - defender.def)

\* collisionStart adding the damage to the spin instead of subtracting it
collisionStartAdds(S, pair) ==
    IF pair.a \in Entity /\ pair.b \in Entity
    THEN LET statsA == StatsOf(S, pair.a)
             statsB == StatsOf(S, pair.b)
             dmgA == NetDamage(statsA, statsB, IsCrit(statsA, pair.rA))
             dmgB == NetDamage(statsB, statsA, IsCrit(statsB, pair.rB))
         IN  [S EXCEPT !.currentRpm[pair.b] = Max(0, @ + dmgA),
                       !.currentRpm[pair.a] = Max(0, @ + dmgB)]
    ELSE S

\* the handler with a wall hit costing the entity 20 rpm, as in the speed-critical variant
collisionStartBarrier(S, pair) ==
    IF pair.a \in Entity /\ pair.b \in Entity
    THEN LET statsA == StatsOf(S, pair.a)
             statsB == StatsOf(S, pair.b)
             dmgA == NetDamage(statsA, statsB, IsCrit(statsA, pair.rA))
             S1 == [S EXCEPT !.currentRpm[pair.b] = Max(0, @ - dmgA)]
             dmgB == NetDamage(StatsOf(S1, pair.b), StatsOf(S1, pair.a),
                               IsCrit(StatsOf(S1, pair.b), pair.rB))
         IN  [S1 EXCEPT !.currentRpm[pair.a] = Max(0, @ - dmgB)]
    ELSE IF pair.a \in Entity
    THEN [S EXCEPT !.currentRpm[pair.a] = Max(0, @ - 20 * RpmUnit)]
    ELSE IF pair.b \in Entity
    THEN [S EXCEPT !.currentRpm[pair.b] = Max(0, @ - 20 * RpmUnit)]
    ELSE S

\* one pair of the collisionStart handler: bodyA, bodyB and the two random draws
collisionStart(S, pair) ==
    IF pair.a \in Entity /\ pair.b \in Entity
    THEN LET statsA == StatsOf(S, pair.a)
             statsB == StatsOf(S, pair.b)
             dmgA == NetDamage(statsA, statsB, IsCrit(statsA, pair.rA))
             S1 == [S EXCEPT !.currentRpm[pair.b] = Max(0, @ - dmgA)]
             dmgB == NetDamage(StatsOf(S1, pair.b), StatsOf(S1, pair.a),
                               IsCrit(StatsOf(S1, pair.b), pair.rB))
         IN  [S1 EXCEPT !.currentRpm[pair.a] = Max(0, @ - dmgB)]
    ELSE S

RECURSIVE collisionEvents(_, _)
\* event.pairs.forEach over all collisionStart events of one frame's substeps
collisionEvents(S, pairs) ==
    IF pairs = <<>> THEN S
    ELSE collisionEvents(collisionStart(S, Head(pairs)), Tail(pairs))

\* ------------------------------------------------------------- frame: animate
\* subStepDelta * SUBSTEPS = ((1000 / 60) / SUBSTEPS) * SUBSTEPS ms = 1 / FrameRate s
FrameRate == 60

\* decay taken from the wall-clock frame time: stats.sta * (deltaTime / 1000)
DecayWallClock(stats, deltaTime) ==
    (stats.sta * (RpmUnit \div StaUnit) * deltaTime) \div 1000

\* decay = stats.sta * (subStepDelta / 1000) * SUBSTEPS, in spin units
Decay(stats, deltaTime) == (stats.sta * (RpmUnit \div StaUnit)) \div FrameRate

\* dist > RING_OUT_RADIUS for dist = sqrt(pos.x^2 + pos.z^2); false for a NaN dist
RingOut(pos) ==
    ~pos.nan /\ pos.x * pos.x + pos.z * pos.z > RING_OUT_RADIUS * RING_OUT_RADIUS

\* the condition of the death check, on the mesh position and the spin it reads
DeathCondition(S, e) == S.currentRpm[e] <= 0 \/ RingOut(S.meshPos[e])

\* showWinner(text)
showWinner(S, text) == [S EXCEPT !.winnerOverlays = Append(@, text)]

\* driftVelocity of the death branch, from the mesh position and the body velocity:
\* vy = 2 * k * (pos.x * vx + pos.z * vz) with k = BOWL_MAX_HEIGHT / ARENA_RADIUS^2; a body
\* slower than 0.5 floats up gently (its random horizontal components are left at 0),
\* a faster one keeps 1.2 times its velocity plus a lift of 0.5; y is made positive and
\* at least 0.5.  A NaN operand makes every comparison false and the result NaN.
DriftVelocity(pos, vel) ==
    IF pos.nan \/ vel.nan
    THEN [x |-> 0, y |-> 0, z |-> 0, nan |-> TRUE]
    ELSE LET vy == (2 * BOWL_MAX_HEIGHT * 10 * (pos.x * vel.x + pos.z * vel.y))
                       \div (ARENA_RADIUS * ARENA_RADIUS)
             lifted == (12 * vy) \div 10 + 50
         IN  IF vel.x * vel.x + vel.y * vel.y < 5 * 5
             THEN [x |-> 0, y |-> 50, z |-> 0, nan |-> FALSE]
             ELSE [x |-> 12 * vel.x, y |-> Max(Abs(lifted), 50), z |-> 12 * vel.y,
                   nan |-> FALSE]

\* the death branch without Composite.remove(engine.world, entity.body)
markDeadKeepsBody(S, e) ==
    [S EXCEPT !.isDead[e] = TRUE, !.currentRpm[e] = 0,
              !.driftVelocity[e] = DriftVelocity(S.meshPos[e], S.bodyVel[e]),
              !.driftRotation[e] = [random |-> TRUE]]

\* entity.isDead = true ... Composite.remove(engine.world, entity.body); the three
\* random components of driftRotation are not tracked
markDead(S, e) ==
    [S EXCEPT !.isDead[e] = TRUE, !.currentRpm[e] = 0,
              !.driftVelocity[e] = DriftVelocity(S.meshPos[e], S.bodyVel[e]),
              !.driftRotation[e] = [random |-> TRUE],
              !.world[e] = CompositeRemove(@)]

\* die announcing the entity that died as the winner
dieWinnerSelf(S, e) ==
    LET S1 == markDead(S, e)
    IN  IF ~S1.gameOver
        THEN [S1 EXCEPT !.gameOver = TRUE,
                        !.winnerOverlays =
                            Append(@, IF e = "player" THEN "P1 WINS" ELSE "CPU WINS")]
        ELSE S1

\* die without the !gameOver guard around the announcement
dieAlwaysAnnounces(S, e) ==
    [markDead(S, e) EXCEPT
        !.gameOver = TRUE,
        !.winnerOverlays = Append(@, IF e = "player" THEN "CPU WINS" ELSE "P1 WINS")]

\* the death branch of the entities.forEach body
die(S, e) ==
    LET S1 == markDead(S, e)
    IN  IF ~S1.gameOver
        THEN showWinner([S1 EXCEPT !.gameOver = TRUE],
                        IF e = "player" THEN "CPU WINS" ELSE "P1 WINS")
        ELSE S1

\* Body.setAngularVelocity(entity.body, (currentRpm / 100) * sign) with
\* sign = Math.sign(entity.body.angularVelocity) || 1
setAngularVelocity(S, e) ==
    LET sign == IF Sign(S.angularVel[e]) = 0 THEN 1 ELSE Sign(S.angularVel[e])
    IN  [S EXCEPT !.angularVel[e] = S.currentRpm[e] * sign]

\* the per-entity pass without the hasLaunched condition of the death check
evaluateNoLaunchGuard(S, e, deltaTime) ==
    LET S1 == IF ~S.isDead[e] /\ DeathCondition(S, e) THEN die(S, e) ELSE S
    IN  IF S1.isDead[e] THEN S1
        ELSE LET S2 == [S1 EXCEPT !.meshPos[e] = MeshAt(S1.bodyPos[e])]
                 decay == Decay(StatsOf(S2, e), deltaTime)
                 S3 == IF S2.currentRpm[e] > 0
                       THEN [S2 EXCEPT !.currentRpm[e] = Max(0, @ - decay)]
                       ELSE S2
             IN  setAngularVelocity(S3, e)

\* the entities.forEach body of animate for one entity: death check, mesh sync, decay
evaluate(S, e, deltaTime) ==
    LET S1 == IF ~S.isDead[e] /\ S.hasLaunched /\ DeathCondition(S, e) THEN die(S, e) ELSE S
    IN  IF S1.isDead[e] THEN S1
        ELSE LET S2 == [S1 EXCEPT !.meshPos[e] = MeshAt(S1.bodyPos[e])]
                 decay == Decay(StatsOf(S2, e), deltaTime)
                 S3 == IF S2.currentRpm[e] > 0
                       THEN [S2 EXCEPT !.currentRpm[e] = Max(0, @ - decay)]
                       ELSE S2
             IN  setAngularVelocity(S3, e)

\* the whole square root Math.sqrt returns for the positions of the model
Sqrt(n) == CHOOSE d \in 0..(2 * ARENA_RADIUS) : d * d = n

\* the force of one substep for a body at pos: dish toward the centre, curl clockwise,
\*   radial = -pos / dist, tangent = (radial.y, -radial.x),
\*   dish = F * mass * dist * dishForce, curl = F * mass * (1 - dist / ARENA_RADIUS) * curlForce,
\*   force = radial * dish + tangent * curl.
\* At dist = 0 the division 0 / 0 gives NaN, as it does for a NaN position.
ArenaForce(pos, stats) ==
    IF pos.nan THEN NaNVec
    ELSE LET dist == Sqrt(pos.x * pos.x + pos.y * pos.y)
         IN  IF dist = 0 THEN NaNVec
             ELSE Vec(- pos.x * ARENA_RADIUS * stats.dishForce
                          - (pos.y * (ARENA_RADIUS - dist) * stats.curlForce) \div dist,
                      - pos.y * ARENA_RADIUS * stats.dishForce
                          + (pos.x * (ARENA_RADIUS - dist) * stats.curlForce) \div dist)

\* the substep loop with the forces applied to dead entities as well
physicsForcesDead(S, pairs, moved) ==
    LET S1 == collisionEvents(S, pairs)
        poisoned(e) == S1.world[e] > 0 /\ (S1.bodyForce[e].nan \/ S1.bodyPos[e].nan)
        S2 == [S1 EXCEPT
                 !.bodyPos = [e \in Entity |-> IF poisoned(e) THEN NaNVec ELSE moved[e].pos],
                 !.bodyVel = [e \in Entity |-> IF poisoned(e) THEN NaNVec ELSE moved[e].vel],
                 !.angularVel = [e \in Entity |-> moved[e].spin * Abs(S1.angularVel[e])]]
        forced(e) == S2.hasLaunched
    IN  [S2 EXCEPT
           !.bodyForce = [e \in Entity |->
                             IF forced(e) THEN ArenaForce(S2.bodyPos[e], StatsOf(S2, e))
                             ELSE IF S2.world[e] > 0 THEN Vec(0, 0) ELSE S2.bodyForce[e]],
           !.forceCalls = [e \in Entity |-> IF forced(e) THEN SUBSTEPS ELSE 0]]

\* the substep loop: SUBSTEPS times Engine.update, which reports the collision pairs,
\* moves the bodies in the world (a body with a NaN force or position ends at NaN) and
\* clears their forces, then the dish + curl force on every live entity of a launched
\* match.  moved is where the engine leaves each body; the force kept in body.force is
\* the one of the last substep.
physics(S, pairs, moved) ==
    LET S1 == collisionEvents(S, pairs)
        poisoned(e) == S1.world[e] > 0 /\ (S1.bodyForce[e].nan \/ S1.bodyPos[e].nan)
        S2 == [S1 EXCEPT
                 !.bodyPos = [e \in Entity |-> IF poisoned(e) THEN NaNVec ELSE moved[e].pos],
                 !.bodyVel = [e \in Entity |-> IF poisoned(e) THEN NaNVec ELSE moved[e].vel],
                 !.angularVel = [e \in Entity |-> moved[e].spin * Abs(S1.angularVel[e])]]
        forced(e) == S2.hasLaunched /\ ~S2.isDead[e]
    IN  [S2 EXCEPT
           !.bodyForce = [e \in Entity |->
                             IF forced(e) THEN ArenaForce(S2.bodyPos[e], StatsOf(S2, e))
                             ELSE IF S2.world[e] > 0 THEN Vec(0, 0) ELSE S2.bodyForce[e]],
           !.forceCalls = [e \in Entity |-> IF forced(e) THEN SUBSTEPS ELSE 0]]

\* animate() visiting the entities in the opposite order
animateReversed(S, deltaTime, pIdx, eIdx, pairs, moved) ==
    IF UpdateThrows(S, deltaTime)
    THEN updatePowerUpLogic(S, deltaTime, pIdx, eIdx)
    ELSE LET S1 == updatePowerUpLogic(S, deltaTime, pIdx, eIdx)
             S2 == physics(S1, pairs, moved)
             S3 == evaluate(S2, entities[2], deltaTime)
             S4 == evaluate(S3, entities[1], deltaTime)
         IN  [S4 EXCEPT !.frameCounter = @ + 1]

\* animate(): one frame
animate(S, deltaTime, pIdx, eIdx, pairs, moved) ==
    IF UpdateThrows(S, deltaTime)
    THEN updatePowerUpLogic(S, deltaTime, pIdx, eIdx)
    ELSE LET S1 == updatePowerUpLogic(S, deltaTime, pIdx, eIdx)
             S2 == physics(S1, pairs, moved)
             S3 == evaluate(S2, entities[1], deltaTime)
             S4 == evaluate(S3, entities[2], deltaTime)
         IN  [S4 EXCEPT !.frameCounter = @ + 1]

\* ------------------------------------------------------------------- actions
\* sequences over a set, up to a length
SeqsUpTo(T, n) == UNION {[1..k -> T] : k \in 0..n}

\* s with its i-th element removed
RemoveAt(s, i) == SubSeq(s, 1, i - 1) \o SubSeq(s, i + 1, Len(s))

\* collision pairs the engine can report: both bodies must be in the world and moving
PairChoices ==
    LET live == {e \in Entity : hasLaunched /\ world[e] > 0}
    IN  {[a |-> e, b |-> Other(e), rA |-> r1, rB |-> r2] :
            e \in {x \in live : Other(x) \in live}, r1 \in Randoms, r2 \in Randoms}
        \cup {[a |-> e, b |-> "wall", rA |-> 0, rB |-> 0] : e \in live}
        \cup {[a |-> "wall", b |-> e, rA |-> 0, rB |-> 0] : e \in live}

\* a body the engine leaves as it is: at rest before launch, or removed from the world
Unmoved(e) == [pos |-> bodyPos[e], vel |-> bodyVel[e], spin |-> Sign(angularVel[e])]

\* what the engine can leave of the two bodies, each body in the world of a launched
\* match in one of the given states
Moves(states) ==
    {m \in [Entity -> states \cup {Unmoved(e) : e \in Entity}] :
        \A e \in Entity :
            IF hasLaunched /\ world[e] > 0 THEN m[e] \in states ELSE m[e] = Unmoved(e)}

MoveChoices == Moves(PhysStates)

\* Math.floor(Math.random() * n) + 1 for a draw r in hundredths
RandomIndex(r, n) == ((r * n) \div 100) + 1

\* the random indices resolveChoicesAndReveal can draw in a frame of length dt
IndexChoices(dt) ==
    IF /\ powerUpState.isActive
       /\ ~powerUpState.isRevealing
       /\ powerUpState.elapsedTime + dt >= POWERUP_DURATION
       /\ Len(currentPowerups) > 0
    THEN {RandomIndex(r, Len(currentPowerups)) : r \in Randoms}
    ELSE {1}

\* a requestAnimationFrame callback, with the frame's inputs drawn from the given sets
FrameStep(limit, dts, pairSeqs, moves) ==
    /\ frameCounter <= limit
    /\ \E dt \in dts, pairs \in pairSeqs, moved \in moves :
         \E pIdx \in IndexChoices(dt), eIdx \in IndexChoices(dt) :
            LET S == animate(Now, dt, pIdx, eIdx, pairs, moved)
            IN  /\ S.timers <= MaxTimers
                /\ Len(S.winnerOverlays) <= MaxOverlays
                /\ Becomes(S)

AnimateFrame == FrameStep(MaxFrames, DeltaTimes, SeqsUpTo(PairChoices, MaxPairs), MoveChoices)

\* a setTimeout(showPowerupCards, 500) callback runs
TimerFires ==
    /\ timers > 0
    /\ \E drawn \in (IF ~hasLaunched \/ gameOver \/ Drawable(Now) = {}
                     THEN {<<>>}
                     ELSE [1..3 -> Drawable(Now)]) :
         Becomes(showPowerupCards([Now EXCEPT !.timers = @ - 1],
                                  IF ~hasLaunched \/ gameOver THEN currentPowerups ELSE drawn))

\* a card is clicked (the container is shown while a cycle is active) or key 1-3 is pressed
SelectPowerup ==
    /\ powerUpState.isActive \/ (hasLaunched /\ ~gameOver)
    /\ \E index \in 1..Min(MaxSelect, Len(currentPowerups)) : Becomes(selectPowerup(Now, index))

\* key R: removes the first winner overlay (and, in a launched match, opens the dialog)
ResetKey ==
    /\ winnerOverlays # <<>>
    /\ Becomes([Now EXCEPT !.winnerOverlays = Tail(@)])

\* the REMATCH button of a winner overlay: removes it (and opens the dialog)
RematchClick ==
    \E i \in 1..Len(winnerOverlays) :
        Becomes([Now EXCEPT !.winnerOverlays = RemoveAt(@, i)])

\* a "Reset Match" dialog is open only if showResetDialog was called: by key R or the
\* RESET button in a launched match, or by REMATCH after a match; it stays open until
\* one of its buttons is pressed, whatever happens to the match meanwhile
DialogOpen == hasLaunched \/ matchStart["player"] # Null

\* "Keep Power Ups" of a reset dialog
DialogKeep == DialogOpen /\ Becomes(resetMatch(Now, TRUE))

\* "Discard Power Ups" of a reset dialog
DialogDiscard == DialogOpen /\ Becomes(resetMatch(Now, FALSE))

\* saveAndApply taking the in-place path whether or not a match is running
saveAndApplyInPlace(S, target, tempStats) ==
    LET S1 == [S EXCEPT !.presets[target] = tempStats]
    IN  EnsureInWorld(resetEntityVisualsAndPhysics(
                          resetEntityVisualsAndPhysics(S1, "player", "global"),
                          "enemy", "global"))

\* "Save & Apply" of the stat editor opened for target, with the edited values
saveAndApply(S, target, tempStats) ==
    LET S1 == AssignPreset(S, target, tempStats)
    IN  IF ~S1.hasLaunched
        THEN EnsureInWorld(resetEntityVisualsAndPhysics(
                               resetEntityVisualsAndPhysics(S1, "player", "global"),
                               "enemy", "global"))
        ELSE resetMatch(S1, FALSE)

SaveAndApply ==
    \E target \in Entity, tempStats \in EditorPresets :
        Becomes(saveAndApply(Now, target, tempStats))

\* "Reset Defaults" of the stat editor opened for target, confirmed
resetDefaults(S, target) == resetMatch(AssignPreset(S, target, DefaultStats(target)), FALSE)

ResetDefaults == \E target \in Entity : Becomes(resetDefaults(Now, target))

Next ==
    \/ LaunchClick
    \/ AnimateFrame
    \/ TimerFires
    \/ SelectPowerup
    \/ ResetKey
    \/ RematchClick
    \/ DialogKeep
    \/ DialogDiscard
    \/ SaveAndApply
    \/ ResetDefaults

Spec == Init /\ [][Next]_vars

\* ------------------------------------------- combat and decay specifications
\* matches between the presets of the damage examples
CombatFrame == FrameStep(CombatFrames, DeltaTimes, SeqsUpTo(PairChoices, MaxPairs), MoveChoices)

NextCombat ==
    \/ LaunchClick
    \/ CombatFrame

SpecCombat == InitWith(CombatPresets) /\ [][NextCombat]_vars

\* frames of a launched match without collisions, the bodies staying in bounds
StayInBounds == Moves({AtRest})

DecayFrame == hasLaunched /\ FrameStep(DecayFrames, DecayDeltaTimes, {<<>>}, StayInBounds)

NextDecay ==
    \/ LaunchClick
    \/ DecayFrame

SpecDecay == InitWith(DecayPresets) /\ [][NextDecay]_vars

\* frames without collisions in which the engine can leave a body exactly at the centre
ForceFrame == FrameStep(ForceFrames, DeltaTimes, {<<>>}, Moves(ForcePhysStates))

NextForces ==
    \/ LaunchClick
    \/ ForceFrame

SpecForces == InitWith(ForcePresets) /\ [][NextForces]_vars

\* ---------------------------------------------------- aiming specification
\* e.clientX of pointer events on a screen 1600 px wide, and e.movementX of mouse events
\* under pointer lock: single pixels, and the distance the events of a stalled frame or
\* a fast flick add up to
ClientXs == {0, 400, 1600}
MovementXs == {-900, -1, 1, 900}

\* dragZone pointerdown handler
pointerDown(S, clientX) == [S EXCEPT !.isAiming = TRUE, !.previousAimX = clientX]

\* dragZone pointermove handler; locked: document.pointerLockElement === dragZone
pointerMove(S, movementX, clientX, locked) ==
    IF ~S.isAiming THEN S
    ELSE LET deltaX == IF locked THEN movementX ELSE clientX - S.previousAimX
             S1 == IF locked THEN S ELSE [S EXCEPT !.previousAimX = clientX]
             newAngle == S.currentLaunchAngle + deltaX
             wrappedDown == IF newAngle >= 360 * AngleUnit
                            THEN newAngle - 360 * AngleUnit
                            ELSE newAngle
             wrapped == IF wrappedDown < 0 THEN wrappedDown + 360 * AngleUnit ELSE wrappedDown
         IN  [S1 EXCEPT !.currentLaunchAngle = wrapped]

\* endAim: dragZone pointerup / pointercancel handler
endAim(S) == IF ~S.isAiming THEN S ELSE [S EXCEPT !.isAiming = FALSE]

\* the drag zone is part of the launch container, shown until launch
PointerDown == ~hasLaunched /\ \E clientX \in ClientXs : Becomes(pointerDown(Now, clientX))

PointerMove ==
    /\ ~hasLaunched
    /\ \E movementX \in MovementXs, clientX \in ClientXs, locked \in BOOLEAN :
         LET S == pointerMove(Now, movementX, clientX, locked)
         IN  /\ Abs(S.currentLaunchAngle) <= MaxTurns * 360 * AngleUnit
             /\ Becomes(S)

EndAim == ~hasLaunched /\ Becomes(endAim(Now))

NextAim ==
    \/ PointerDown
    \/ PointerMove
    \/ EndAim

SpecAim == InitWith({DEFAULT_PLAYER_STATS}) /\ [][NextAim]_vars

\* ------------------------------------- boost variant (unnamed/part_001)
\* PATTERNS of the variant, with its DISH_LOW = 1, DISH_HIGH = 5, CURL_LOW = 1,
\* CURL_HIGH = 100, FRICTION_LOW = 0.02 and FRICTION_HIGH = 0.1; the variant's default
\* stats carry the same maxRpm, atk, def, sta, spd, frictionAir, dishForce and curlForce
\* as DEFAULT_PLAYER_STATS / DEFAULT_ENEMY_STATS above
PATTERNS ==
    <<[name |-> "EDGE", dish |-> 1, curl |-> 100, drag |-> FRICTION_LOW],
      [name |-> "CENTER", dish |-> 5, curl |-> 1, drag |-> FRICTION_HIGH]>>

\* the pattern currentPatternIndex selects (the array is indexed from 0)
CurrentPattern(S) == PATTERNS[S.currentPatternIndex + 1]

\* updatePhysicsFromPattern()
updatePhysicsFromPattern(S) ==
    LET pat == CurrentPattern(S)
        S1 == SetStat(S, "player", "dishForce", pat.dish)
        S2 == SetStat(S1, "player", "curlForce", pat.curl)
        S3 == [S2 EXCEPT !.bodyFrictionAir["player"] = pat.drag]
    IN  SetStat(S3, "player", "frictionAir", pat.drag)

\* setPattern(e, pattern)
setPattern(S, pattern) == updatePhysicsFromPattern([S EXCEPT !.currentPatternIndex = pattern])

\* keydown of Space: if (currentPatternIndex !== 1) setPattern(null, 1)
spaceDown(S) == IF S.currentPatternIndex # 1 THEN setPattern(S, 1) ELSE S

\* the variant's launchBtn click handler
boostLaunch(S, angle, r) ==
    IF S.hasLaunched THEN S
    ELSE LET S1 == [S EXCEPT !.hasLaunched = TRUE,
                             !.bodyVel =
                                 [e \in Entity |->
                                     LaunchVelocity(StatsOf(S, e),
                                                    IF e = "player" THEN angle
                                                    ELSE EnemyAngle(r))],
                             !.currentRpm = [e \in Entity |-> StatsOf(S, e).maxRpm],
                             !.angularVel = [e \in Entity |-> StatsOf(S, e).maxRpm]]
         IN  Snapshot(Snapshot(S1, "player"), "enemy")

\* the variant's resetMatch()
boostResetMatch(S) ==
    LET S1 == [S EXCEPT !.hasLaunched = FALSE, !.gameOver = FALSE]
        S2 == IF S1.matchStart["player"] # Null /\ S1.matchStart["enemy"] # Null
              THEN LET A == AssignPreset(AssignPreset(S1, "player", S1.matchStart["player"]),
                                         "enemy", S1.matchStart["enemy"])
                   IN  resetEntityVisualsAndPhysics(
                           resetEntityVisualsAndPhysics(A, "player", "snap"),
                           "enemy", "snap")
              ELSE resetEntityVisualsAndPhysics(
                       resetEntityVisualsAndPhysics(S1, "player", "global"),
                       "enemy", "global")
    IN  EnsureInWorld(S2)

\* matchStartPlayerStats / matchStartEnemyStats = JSON.parse(JSON.stringify(stats)): a
\* new snapshot object; an entity still pointing to the old one keeps it as its own
NewSnapshot(S, e, stats) ==
    [S EXCEPT !.matchStart[e] = [k \in StatKeys |-> stats[k]],
              !.ownStats[e] = IF S.statsRef[e] = "snap" THEN S.matchStart[e] ELSE @,
              !.statsRef[e] = IF S.statsRef[e] = "snap" THEN "own" ELSE @]

\* the variant's "SAVE & APPLY" and "RESET DEFAULTS" (confirmed) of the stat editor
boostSaveAndApply(S, target, tempStats) ==
    boostResetMatch(NewSnapshot(AssignPreset(S, target, tempStats), target, tempStats))

boostResetDefaults(S, target) ==
    boostResetMatch(NewSnapshot(AssignPreset(S, target, DefaultStats(target)), target,
                                DefaultStats(target)))

\* what the editor saves: a copy of the target's preset with the attack edited (the
\* editor has no field for the arena forces or the air drag)
BoostEdits(S, target) == {[S.presets[target] EXCEPT !.atk = a] : a \in {StrikerStats.atk}}

SpaceDown == Becomes(spaceDown(Now))

\* keyup of Space: setPattern(null, 0)
SpaceUp == Becomes(setPattern(Now, 0))

\* the DIVE button, shown from launch to the next reset: mousedown / pointerdown
DiveDown == hasLaunched /\ Becomes(setPattern(Now, 1))

\* the DIVE button: pointerup / pointerleave
DiveUp == hasLaunched /\ Becomes(setPattern(Now, 0))

BoostLaunch ==
    \E r \in Randoms : Becomes(boostLaunch(Now, Degrees(currentLaunchAngle), r))

\* key R, the reset hint, or REMATCH
BoostReset == Becomes(boostResetMatch(Now))

BoostSaveAndApply ==
    \E target \in Entity : \E tempStats \in BoostEdits(Now, target) :
        Becomes(boostSaveAndApply(Now, target, tempStats))

BoostResetDefaults == \E target \in Entity : Becomes(boostResetDefaults(Now, target))

NextBoost ==
    \/ SpaceDown
    \/ SpaceUp
    \/ DiveDown
    \/ DiveUp
    \/ BoostLaunch
    \/ BoostReset
    \/ BoostSaveAndApply
    \/ BoostResetDefaults

\* the variant once its module has been evaluated: default presets, then the "Init
\* Physics" call of updatePhysicsFromPattern() with currentPatternIndex = 0, which
\* writes the EDGE pattern into the player's stats (the PLAYER_STATS object)
EdgeDefaults ==
    [DEFAULT_PLAYER_STATS EXCEPT !.dishForce = PATTERNS[1].dish,
                                 !.curlForce = PATTERNS[1].curl,
                                 !.frictionAir = PATTERNS[1].drag]

BoostInit ==
    /\ InitWith({EdgeDefaults, DEFAULT_ENEMY_STATS})
    /\ presets = [e \in Entity |-> IF e = "player" THEN EdgeDefaults ELSE DEFAULT_ENEMY_STATS]

SpecBoost == BoostInit /\ [][NextBoost]_vars

\* ------------------------------------------------- power-up specification
\* a pool configuration saved in the pool editor: one atk_boost and one def_boost card
TwoCards == [id \in PowerUpId |-> IF id \in {"atk_boost", "def_boost"} THEN 1 ELSE 0]
PoolConfigs == {TwoCards}

\* frame lengths that reach the two durations exactly or overshoot them
PoolDeltaTimes == {2000, 5000}

\* the number of cards in a pool
PoolSize(p) ==
    p["atk_boost"] + p["def_boost"] + p["sta_drain"] + p["crit_boost"] + p["swap_drag"]
        + p["swap_radial"] + p["swap_tangent"]

\* the ids PowerUpPool.draw can return, the random index bounded to the first
\* MaxPoolKinds kinds that are left
PoolDrawable(S) ==
    LET left == {id \in PowerUpId : S.pool[id] > 0}
        rank(id) == CHOOSE i \in 1..Len(POWERUP_IDS) : POWERUP_IDS[i] = id
    IN  {id \in left : Cardinality({o \in left : rank(o) < rank(id)}) < MaxPoolKinds}

\* the cards a showPowerupCards callback can draw in state S: three draws with
\* replacement, or none from an empty pool
Draws(S) ==
    IF PoolDrawable(S) = {} THEN {<<>>} ELSE [1..3 -> PoolDrawable(S)]

\* "GO" of the pool editor, which the POOL button opens while it is shown (not in a
\* launched match)
UpdateConfig ==
    /\ ~hasLaunched
    /\ \E newConfig \in PoolConfigs : Becomes(updateConfig(Now, newConfig))

\* launchBtn click; a launch may find callbacks of earlier matches still pending
PoolLaunch ==
    /\ hasLaunched \/ timers < MaxPending
    /\ \E r \in Randoms : Becomes(launch(Now, Degrees(currentLaunchAngle), r))

\* a setTimeout(showPowerupCards, 500) callback runs
PoolTimerFires ==
    /\ timers > 0
    /\ \E drawn \in Draws(Now) :
         Becomes(showPowerupCards([Now EXCEPT !.timers = @ - 1],
                                  IF ~hasLaunched \/ gameOver THEN currentPowerups ELSE drawn))

\* a frame without collisions, the bodies staying in bounds
PoolFrame ==
    /\ frameCounter <= PoolFrames
    /\ \E dt \in PoolDeltaTimes, moved \in StayInBounds :
         \E pIdx \in IndexChoices(dt), eIdx \in IndexChoices(dt) :
            LET S == animate(Now, dt, pIdx, eIdx, <<>>, moved)
            IN  S.timers <= MaxPending /\ Becomes(S)

NextPowerups ==
    \/ UpdateConfig
    \/ PoolLaunch
    \/ PoolTimerFires
    \/ SelectPowerup
    \/ PoolFrame
    \/ DialogDiscard

SpecPowerups == InitWith({DEFAULT_PLAYER_STATS}) /\ [][NextPowerups]_vars

\* ------------------------------------------------------- claims: match rules
\* every input a frame can take in the current state
FrameInputs ==
    UNION {{[dt |-> dt, pIdx |-> pIdx, eIdx |-> eIdx, pairs |-> pairs, moved |-> moved] :
                pIdx \in IndexChoices(dt), eIdx \in IndexChoices(dt),
                pairs \in SeqsUpTo(PairChoices, MaxPairs), moved \in MoveChoices} :
           dt \in DeltaTimes}

\* the state the evaluation pass of a frame starts from: power-up logic and substeps done
PassStart(in) == physics(updatePowerUpLogic(Now, in.dt, in.pIdx, in.eIdx), in.pairs, in.moved)

\* the state a frame ends in
FrameEnd(in) == animate(Now, in.dt, in.pIdx, in.eIdx, in.pairs, in.moved)

\* the frame reaches its evaluation pass
Evaluates(in) == ~UpdateThrows(Now, in.dt)

WinText(e) == IF e = "player" THEN "P1 WINS" ELSE "CPU WINS"

\* the step is a call of resetMatch, on the current state (a reset dialog button) or
\* right after the stat editor assigned a preset ("Reset Defaults", "Save & Apply")
ResetMatchCalled ==
    \E keepPowerups \in BOOLEAN :
        \/ Becomes(resetMatch(Now, keepPowerups))
        \/ \E target \in Entity :
              \E stats \in EditorPresets \cup {DefaultStats(target)} :
                 Becomes(resetMatch(AssignPreset(Now, target, stats), keepPowerups))

\* C1: in every reachable state each entity has 0 <= currentRpm <= stats.maxRpm
C1_SpinInRange ==
    \A e \in Entity : currentRpm[e] >= 0 /\ currentRpm[e] <= StatsOf(Now, e).maxRpm

\* a launched entity whose spin has dropped strictly inside the range after a power-up
\* raised its attack above the match-start value
C1_Witness ==
    /\ hasLaunched
    /\ \E e \in Entity :
         /\ currentRpm[e] > 0
         /\ currentRpm[e] < StatsOf(Now, e).maxRpm
         /\ StatsOf(Now, e).atk > matchStart[e].atk

\* C2: a dead entity stays dead in every step that is not a call of resetMatch
C2_DeadUntilReset ==
    [][\A e \in Entity : (isDead[e] /\ ~isDead'[e]) => ResetMatchCalled]_vars

\* the player is dead and its winner overlay has since been dismissed
C2_Witness == isDead["player"] /\ gameOver /\ winnerOverlays = <<>>

\* C3: a pass of an Active match in which exactly one entity meets a death condition
\* marks it dead, removes its body, enters GameOver and announces the other as winner
C3_SingleDeathWin ==
    (hasLaunched /\ ~gameOver) => \A in \in FrameInputs : \A e \in Entity :
        LET S == PassStart(in)
            T == FrameEnd(in)
        IN  (/\ Evaluates(in)
             /\ S.hasLaunched /\ ~S.gameOver
             /\ DeathCondition(S, e)
             /\ ~DeathCondition(S, Other(e)))
            => /\ T.isDead[e]
               /\ T.world[e] = 0
               /\ T.gameOver
               /\ T.winnerOverlays = Append(S.winnerOverlays, WinText(Other(e)))
               /\ ~T.isDead[Other(e)]

\* the player died with the enemy still spinning in bounds: CPU WINS
C3_Witness ==
    /\ isDead["player"] /\ world["player"] = 0
    /\ ~isDead["enemy"] /\ currentRpm["enemy"] > 0 /\ ~RingOut(meshPos["enemy"])
    /\ gameOver /\ winnerOverlays = <<"CPU WINS">>

\* C4: a live entity of a launched match whose body is beyond RING_OUT_RADIUS when the
\* evaluation pass runs is marked dead by that pass
C4_RingOutSamePass ==
    hasLaunched => \A in \in FrameInputs : \A e \in Entity :
        LET S == PassStart(in)
            T == FrameEnd(in)
        IN  (/\ Evaluates(in)
             /\ S.hasLaunched /\ ~S.isDead[e]
             /\ RingOut(MeshAt(S.bodyPos[e])))
            => T.isDead[e]

C6_GameOverTerminal ==
    [][(gameOver /\ ~ResetMatchCalled)
        => /\ gameOver'
           /\ \/ winnerOverlays' = winnerOverlays
              \/ \E i \in 1..Len(winnerOverlays) : winnerOverlays' = RemoveAt(winnerOverlays, i)]_vars

\* GameOver with both entities removed from the world and a single announcement
C6_Witness ==
    /\ gameOver
    /\ world["player"] = 0 /\ world["enemy"] = 0
    /\ Len(winnerOverlays) = 1

\* C7: a pass of an Active match in which both entities meet a death condition marks
\* both dead, removes both bodies, and announces once, for the death of entities[0]
C7_DoubleDeath ==
    (hasLaunched /\ ~gameOver) => \A in \in FrameInputs :
        LET S == PassStart(in)
            T == FrameEnd(in)
        IN  (/\ Evaluates(in)
             /\ S.hasLaunched /\ ~S.gameOver
             /\ \A e \in Entity : DeathCondition(S, e))
            => /\ \A e \in Entity : T.isDead[e] /\ T.world[e] = 0 /\ T.currentRpm[e] = 0
               /\ T.gameOver
               /\ T.hasLaunched
               /\ T.winnerOverlays = Append(S.winnerOverlays, "CPU WINS")

\* both entities dead after the first frame of the match: no earlier pass can have
\* killed one of them
C7_Witness ==
    /\ frameCounter = 2
    /\ \A e \in Entity : isDead[e]
    /\ gameOver /\ winnerOverlays = <<"CPU WINS">>


\* -------------------------------------------------- claims: combat and decay
\* net damage of one direction, from the stat fields and the roll alone
ExpectedDamage(attacker, defender, r) ==
    LET raw == IF r < attacker.crt THEN 2 * attacker.atk ELSE attacker.atk
    IN  IF raw > defender.def THEN raw - defender.def ELSE 0

\* the pair (a, Other(a)) with the rolls rA for a and rB for Other(a), and the same
\* collision reported with the bodies swapped
PairOf(a, rA, rB) == [a |-> a, b |-> Other(a), rA |-> rA, rB |-> rB]
Swapped(pair) == [a |-> pair.b, b |-> pair.a, rA |-> pair.rB, rB |-> pair.rA]

\* C8: an entity-entity collision lowers each spin by max(0, raw - def), floored at 0,
\* from the pre-hit stats, whichever body is bodyA: 90 vs 50 gives 40, 90 vs 120 gives 0
C8_DamageLaw ==
    (hasLaunched /\ \A e \in Entity : world[e] > 0) =>
        \A a \in Entity, rA \in Randoms, rB \in Randoms :
            LET b == Other(a)
                sa == StatsOf(Now, a)
                sb == StatsOf(Now, b)
                T == collisionStart(Now, PairOf(a, rA, rB))
                dmgB == currentRpm[b] - T.currentRpm[b]
            IN  /\ T.currentRpm[b] = Max(0, currentRpm[b] - ExpectedDamage(sa, sb, rA))
                /\ T.currentRpm[a] = Max(0, currentRpm[a] - ExpectedDamage(sb, sa, rB))
                /\ dmgB >= 0
                /\ T.currentRpm = collisionStart(Now, Swapped(PairOf(a, rA, rB))).currentRpm
                /\ (sa.atk = 90 * RpmUnit /\ rA >= sa.crt /\ currentRpm[b] >= 40 * RpmUnit)
                      => /\ sb.def = 50 * RpmUnit => dmgB = 40 * RpmUnit
                         /\ sb.def = 120 * RpmUnit => dmgB = 0

\* after the first frame of a match between two Strikers (atk 90, def 50): the enemy took
\* one plain hit of 40 and one frame of decay, the player an unanswered frame of decay
\* less a critical hit
C8_Witness ==
    /\ frameCounter = 2
    /\ presets = [e \in Entity |-> StrikerStats]
    /\ currentRpm["enemy"] = 960 * RpmUnit - 10 * StaUnit

\* C9: on a critical hit the raw damage is the critical value 2 * atk and the net damage
\* max(0, 2 * atk - def): critical value 180 against def 50 gives 130
C9_CriticalLaw ==
    (hasLaunched /\ \A e \in Entity : world[e] > 0) =>
        \A a \in Entity, rA \in Randoms, rB \in Randoms :
            LET b == Other(a)
                sa == StatsOf(Now, a)
                sb == StatsOf(Now, b)
                T == collisionStart(Now, PairOf(a, rA, rB))
                critValue == 2 * sa.atk
                net == IF critValue > sb.def THEN critValue - sb.def ELSE 0
            IN  IsCrit(sa, rA) =>
                  /\ T.currentRpm[b] = Max(0, currentRpm[b] - net)
                  /\ (critValue = 180 * RpmUnit /\ sb.def = 50 * RpmUnit
                         /\ currentRpm[b] >= 130 * RpmUnit)
                        => currentRpm[b] - T.currentRpm[b] = 130 * RpmUnit

\* after the first frame of a match between two Strikers the enemy took one critical hit
\* of 130 and one frame of decay
C9_Witness ==
    /\ frameCounter = 2
    /\ presets = [e \in Entity |-> StrikerStats]
    /\ currentRpm["enemy"] = 870 * RpmUnit - 10 * StaUnit

\* C10: in a launched match without collisions every frame lowers the spin of a live
\* entity by sta / 60, floored at 0, whatever the wall-clock frame time; with sta = 10
\* and 1000 rpm the spin is 1000 - n / 6 after n frames, 980 after 120
C10_DecayLaw ==
    hasLaunched =>
        /\ \A dt \in DecayDeltaTimes, moved \in StayInBounds : \A e \in Entity :
              LET T == animate(Now, dt, 1, 1, <<>>, moved)
                  st == StatsOf(Now, e)
                  perSecond == st.sta * (RpmUnit \div StaUnit)
              IN  (~isDead[e] /\ currentRpm[e] > 0 /\ ~RingOut(meshPos[e]))
                    => IF currentRpm[e] * FrameRate >= perSecond
                       THEN (currentRpm[e] - T.currentRpm[e]) * FrameRate = perSecond
                       ELSE T.currentRpm[e] = 0
        /\ \A e \in Entity :
              StatsOf(Now, e) = StrikerStats
                => /\ (1000 * RpmUnit - currentRpm[e]) * 6 = (frameCounter - 1) * RpmUnit
                   /\ frameCounter = 121 => currentRpm[e] = 980 * RpmUnit

\* 120 frames after the launch the Striker (sta 10) is down from 1000 rpm to 980
C10_Witness ==
    /\ frameCounter = 121
    /\ StatsOf(Now, "player") = StrikerStats
    /\ currentRpm["player"] = 980 * RpmUnit

\* ------------------------------------------------------ claims: arena forces
\* C11: a live entity exactly at the arena centre after a substep receives zero arena
\* force in that substep (the division by dist is guarded, no NaN force is applied)
C11_CentreForceGuarded ==
    hasLaunched =>
        \A moved \in Moves(ForcePhysStates) : \A e \in Entity :
            LET T == physics(Now, <<>>, moved)
            IN  (~isDead[e] /\ T.bodyPos[e] = Centre) => T.bodyForce[e] = Vec(0, 0)

ResetView(S) ==
    [stats |-> [e \in Entity |-> StatsOf(S, e)], currentRpm |-> S.currentRpm,
     isDead |-> S.isDead, driftVelocity |-> S.driftVelocity,
     driftRotation |-> S.driftRotation, bodyPos |-> S.bodyPos, bodyVel |-> S.bodyVel,
     world |-> S.world, hasLaunched |-> S.hasLaunched, gameOver |-> S.gameOver]

\* C13: from any reachable state, resetMatch(k) called twice in a row leaves the entities
\* (stats, currentRpm, isDead, drift vectors, body position and velocity, presence in the
\* world) and the phase flags as one call does, for k = true and k = false
C13_ResetIdempotent ==
    \A k \in BOOLEAN :
        LET T == resetMatch(Now, k)
            U == resetMatch(T, k)
        IN  ResetView(U) = ResetView(T)

\* a match that ended with the player dead has been reset to its match-start snapshot
\* (the overlay of that match is still shown)
C13_Witness ==
    /\ ~hasLaunched /\ ~gameOver
    /\ winnerOverlays = <<"CPU WINS">>
    /\ \A e \in Entity : statsRef[e] = "snap" /\ ~isDead[e] /\ world[e] = 1

\* C14: from any state resetMatch leaves hasLaunched = false, gameOver = false, each
\* entity with currentRpm = 0, isDead = false, no drift vectors, its body at its spawn
\* slot ((0, 100) player, (0, -100) enemy) with zero velocity, and in the world once
C14_ResetSafe ==
    \A k \in BOOLEAN :
        LET T == resetMatch(Now, k)
        IN  /\ ~T.hasLaunched /\ ~T.gameOver
            /\ \A e \in Entity :
                  /\ T.currentRpm[e] = 0 /\ ~T.isDead[e]
                  /\ T.driftVelocity[e] = Null /\ T.driftRotation[e] = Null
                  /\ T.bodyPos[e] = (IF e = "player" THEN Vec(0, 100) ELSE Vec(0, -100))
                  /\ T.bodyVel[e] = Vec(0, 0)
                  /\ T.world[e] = 1

\* a match the player lost has been reset with the globals as stats: both entities are
\* back alive on their spawn slots, at rest and in the world
C14_Witness ==
    /\ ~hasLaunched /\ ~gameOver /\ matchStart["player"] # Null
    /\ winnerOverlays = <<"CPU WINS">>
    /\ \A e \in Entity :
          /\ statsRef[e] = "global" /\ ~isDead[e] /\ currentRpm[e] = 0
          /\ bodyPos[e] = StartPos(e) /\ bodyVel[e] = Vec(0, 0)
          /\ driftVelocity[e] = Null /\ world[e] = 1

\* C15: the snapshot taken at launch holds each entity's live stats, which are also the
\* values of the global PLAYER_STATS / ENEMY_STATS at that moment; no step of the launched
\* match (power-up applications included) alters it; and resetMatch(false) restores each
\* entity's stats and the globals to exactly those values
C15_SnapshotRoundTrip ==
    [][/\ (~hasLaunched /\ hasLaunched')
            => \A e \in Entity : matchStart'[e] = StatsOf(Now, e) /\ matchStart'[e] = presets[e]
       /\ (hasLaunched /\ hasLaunched') => matchStart' = matchStart
       /\ hasLaunched'
            => LET T == resetMatch(Now', FALSE)
               IN  \A e \in Entity :
                      StatsOf(T, e) = matchStart'[e] /\ T.presets[e] = matchStart'[e]]_vars

\* a launched match in which power-ups have changed an entity's live stats and, through
\* the shared object, the global preset
C15_Witness ==
    /\ hasLaunched
    /\ \E e \in Entity :
          /\ StatsOf(Now, e) # matchStart[e]
          /\ presets[e] # matchStart[e]
          /\ StatsOf(resetMatch(Now, FALSE), e) = matchStart[e]

\* C16: resetMatch(true) leaves each entity's stats and the global presets equal to the
\* live stats the entity had just before the reset; resetMatch(false) leaves them equal
\* to the match-start snapshot, or to the current global presets when there is none
C16_ResetMode ==
    LET K == resetMatch(Now, TRUE)
        D == resetMatch(Now, FALSE)
    IN  \A e \in Entity :
           /\ StatsOf(K, e) = StatsOf(Now, e) /\ K.presets[e] = StatsOf(Now, e)
           /\ IF matchStart["player"] # Null /\ matchStart["enemy"] # Null
              THEN StatsOf(D, e) = matchStart[e] /\ D.presets[e] = matchStart[e]
              ELSE StatsOf(D, e) = presets[e] /\ D.presets[e] = presets[e]

\* after a reset that kept the power-ups: the global preset carries the atk + 2 of a
\* power-up applied in the match, on top of the value in the match-start snapshot
C16_Witness ==
    /\ ~hasLaunched
    /\ \E e \in Entity :
          /\ matchStart[e] # Null /\ statsRef[e] = "global"
          /\ presets[e].atk = matchStart[e].atk + 2 * RpmUnit

\* C17: after "Reset Defaults" is confirmed for a target, in any state, that target's
\* global preset and its entity's stats equal DEFAULT_PLAYER_STATS / DEFAULT_ENEMY_STATS
C17_ResetDefaultsRestores ==
    \A target \in Entity :
        LET T == resetDefaults(Now, target)
        IN  T.presets[target] = DefaultStats(target) /\ StatsOf(T, target) = DefaultStats(target)

\* ------------------------------------------------- claims: launch and spin
\* C18: a launch command while hasLaunched is true changes nothing; in PreLaunch it makes
\* the match Active, sets each entity's currentRpm to its maxRpm and its angular velocity
\* to currentRpm / 100, positive, and stores a snapshot of both entities' live stats
C18_LaunchOnlyPreLaunch ==
    \A r \in Randoms :
        LET T == launch(Now, Degrees(currentLaunchAngle), r)
        IN  IF hasLaunched
            THEN T = Now
            ELSE /\ T.hasLaunched /\ ~T.gameOver
                 /\ \A e \in Entity :
                       /\ T.currentRpm[e] = StatsOf(Now, e).maxRpm
                       /\ T.angularVel[e] = T.currentRpm[e]
                       /\ T.angularVel[e] > 0
                       /\ T.matchStart[e] = StatsOf(Now, e)

\* right after a launch at the initial angle 0: the player moves along x at spd, both
\* entities spin at their maxRpm, the snapshot holds their stats
C18_Witness ==
    /\ hasLaunched /\ ~gameOver
    /\ bodyVel["player"] = Vec(60, 0) /\ bodyPos["player"] = Vec(0, 100)
    /\ \A e \in Entity :
          /\ currentRpm[e] = StatsOf(Now, e).maxRpm
          /\ angularVel[e] = currentRpm[e]
          /\ matchStart[e] = StatsOf(Now, e)

\* C19: from launch until the next resetMatch no step raises an entity's currentRpm
C19_SpinNonIncreasing ==
    [][(hasLaunched /\ ~ResetMatchCalled)
          => \A e \in Entity : currentRpm'[e] <= currentRpm[e]]_vars

\* two frames into a match: an entity that was hit (it lost more than two frames of
\* decay), is still alive, and whose atk a power-up has raised
C19_Witness ==
    /\ hasLaunched /\ frameCounter = 3
    /\ \E e \in Entity :
          /\ ~isDead[e] /\ currentRpm[e] > 0
          /\ currentRpm[e] < matchStart[e].maxRpm - 2 * Decay(matchStart[e], 0)
          /\ StatsOf(Now, e).atk = matchStart[e].atk + 2 * RpmUnit

\* C20: no evaluation pass of an Active match ends with an entity that has
\* currentRpm = 0 and isDead = false (the decay step runs before the death check)
C20_ZeroForcesDeathSamePass ==
    (hasLaunched /\ ~gameOver) =>
        \A in \in FrameInputs : \A e \in Entity :
            (Evaluates(in) /\ FrameEnd(in).currentRpm[e] = 0) => FrameEnd(in).isDead[e]

\* --------------------------------------------------- claims: runs and bodies
\* frame lengths performance.now() can measure: a 60 Hz frame, and a frame after a stall
FrameTimes == {17} \cup DeltaTimes

\* the inputs of a frame of any of these lengths
TimedInputs ==
    UNION {{[dt |-> dt, pIdx |-> pIdx, eIdx |-> eIdx, pairs |-> pairs, moved |-> moved] :
                pIdx \in IndexChoices(dt), eIdx \in IndexChoices(dt),
                pairs \in SeqsUpTo(PairChoices, MaxPairs), moved \in MoveChoices} :
           dt \in FrameTimes}

\* what the determinism claim observes of a state
Outcome(S) == [currentRpm |-> S.currentRpm, isDead |-> S.isDead,
               gameOver |-> S.gameOver, winnerOverlays |-> S.winnerOverlays]

\* C21: two frames run from the same state with the same random draws (critical rolls,
\* random card indices) and the same engine outputs (collision pairs, body states) end
\* with the same currentRpm, the same deaths and the same winner
C21_Determinism ==
    \A in1 \in TimedInputs, in2 \in TimedInputs :
        (/\ in1.pIdx = in2.pIdx
         /\ in1.eIdx = in2.eIdx
         /\ in1.pairs = in2.pairs
         /\ in1.moved = in2.moved)
        => Outcome(FrameEnd(in1)) = Outcome(FrameEnd(in2))

\* C22: in every reachable state each body is in the physics world exactly once if its
\* entity is not dead and not at all if it is dead
C22_BodyInWorldIffAlive ==
    \A e \in Entity : world[e] = IF isDead[e] THEN 0 ELSE 1

\* a decided match: the dead player's body is out of the world, the enemy's body is in it
C22_Witness ==
    /\ hasLaunched
    /\ isDead["player"] /\ world["player"] = 0
    /\ ~isDead["enemy"] /\ world["enemy"] = 1

\* C23: the drift vectors are defined exactly while the entity is dead (set at death,
\* cleared by a reset), and the vertical component of driftVelocity is a number >= 0.5
\* whatever the position and velocity at death
C23_DriftSetAtDeath ==
    \A e \in Entity :
        /\ isDead[e] <=> driftVelocity[e] # Null
        /\ isDead[e] <=> driftRotation[e] # Null
        /\ isDead[e] => (~driftVelocity[e].nan /\ driftVelocity[e].y >= 50)

\* the pairs with at most one tracked entity: an entity against the wall, either way round
WallPairs ==
    {[a |-> e, b |-> "wall", rA |-> 0, rB |-> 0] : e \in Entity}
        \cup {[a |-> "wall", b |-> e, rA |-> 0, rB |-> 0] : e \in Entity}

\* C24: a collision pair with at most one tracked entity leaves currentRpm, isDead and
\* the stats of both entities unchanged, and a frame with such a pair ends as the same
\* frame without it
C24_WallHitsCosmetic ==
    hasLaunched =>
        \A pair \in WallPairs :
            LET T == collisionStart(Now, pair)
            IN  /\ T.currentRpm = currentRpm
                /\ T.isDead = isDead
                /\ \A e \in Entity : StatsOf(T, e) = StatsOf(Now, e)
                /\ \A moved \in MoveChoices :
                      animate(Now, 17, 1, 1, <<pair>>, moved) = animate(Now, 17, 1, 1, <<>>, moved)

\* after the first frame of a match between two Strikers in which no entity hit the
\* other (a wall hit or none): both spins are one frame of decay below maxRpm
C24_Witness ==
    /\ frameCounter = 2
    /\ presets = [e \in Entity |-> StrikerStats]
    /\ \A e \in Entity : ~isDead[e] /\ currentRpm[e] = 1000 * RpmUnit - 10 * StaUnit

\* ------------------------------------------------ claims: editor and power-ups
\* C25: "Save & Apply" leaves the match reset to pre-launch (pressed during a match) or
\* still pre-launch (pressed before launch), and in both cases the target entity's stats
\* and its global preset equal the saved values
C25_SaveAndApplyTakesEffect ==
    \A target \in Entity, tempStats \in EditorPresets :
        LET T == saveAndApply(Now, target, tempStats)
        IN  /\ ~T.hasLaunched /\ ~T.gameOver
            /\ \A e \in Entity : ~T.isDead[e] /\ T.currentRpm[e] = 0
            /\ StatsOf(T, target) = tempStats
            /\ T.presets[target] = tempStats

\* the step is a frame that ends the reveal phase of the open cycle
CycleCompletes ==
    /\ powerUpState.isActive /\ powerUpState.isRevealing
    /\ frameCounter' # frameCounter
    /\ ~powerUpState'.isActive

\* the step is a showPowerupCards callback
TimerCallback == timers' = timers - 1

\* the step is "GO" of the pool editor
UpdateConfigCalled == \E newConfig \in PoolConfigs : Becomes(updateConfig(Now, newConfig))

\* cycles completed since launch, counted by what they gave the player: every card the
\* draws reach here adds 2 to atk or to def
CompletedCycles(S) ==
    LET now == StatsOf(S, "player")
        start == S.matchStart["player"]
    IN  ((now.atk - start.atk) + (now.def - start.def)) \div (2 * RpmUnit)

C27_AppliedOnlyWhileActive ==
    \A in \in FrameInputs :
        LET T == FrameEnd(in)
            ps == powerUpState
            changed == \E e \in Entity : StatsOf(T, e) # StatsOf(Now, e)
        IN  /\ (~hasLaunched \/ gameOver) => ~changed
            /\ changed =>
                  /\ ps.isActive /\ ps.isRevealing
                  /\ ps.elapsedTime >= POWERUP_DURATION
                  /\ ps.revealTime + in.dt >= REVEAL_DURATION
                  /\ \A e \in Entity :
                        StatsOf(T, e) =
                            StatsOf(apply(apply(Now, ps.playerChoice.powerup, "player"),
                                          ps.enemyChoice.powerup, "enemy"), e)

\* C28: a showPowerupCards callback never restarts an open cycle.  A match has one
\* callback pending or one cycle open at a time (launch schedules one callback, a cycle
\* opens when it runs and schedules the next when it ends), so a callback that runs
\* while a cycle is open was scheduled in an earlier match, or the cycle was opened by
\* one that was; either way it must leave the cycle, its cards and a locked player
\* choice as they are
C28_NoStaleRestart ==
    (timers > 0 /\ powerUpState.isActive) =>
        \A drawn \in Draws(Now) :
            LET T == showPowerupCards([Now EXCEPT !.timers = @ - 1], drawn)
            IN  /\ T.powerUpState = powerUpState
                /\ T.currentPowerups = currentPowerups

\* ------------------------------------------------------------ claims: aiming
\* C29: after every pointer-move update, whatever the movement delta, the launch angle
\* is wrapped into 0 <= currentLaunchAngle.value < 360
C29_AngleWrapped ==
    0 <= currentLaunchAngle /\ currentLaunchAngle < 360 * AngleUnit

\* ------------------------------------------------------- claims: boost variant
\* C30: in every reachable state of the boost variant the player's dishForce, curlForce
\* and frictionAir, and the air drag of its body, are those of PATTERNS[currentPatternIndex]
C30_PatternGoverns ==
    LET pat == CurrentPattern(Now)
        st == StatsOf(Now, "player")
    IN  /\ st.dishForce = pat.dish
        /\ st.curlForce = pat.curl
        /\ st.frictionAir = pat.drag
        /\ bodyFrictionAir["player"] = pat.drag

====
